---- MODULE Spec2Model ----
(***************************************************************************)
(* Veo Gallery: the App component's state, its event handlers, and the     *)
(* asynchronous generateVideoFromText call sequence (job creation, the     *)
(* polling loop, the blob fetches) with every await point as a step.       *)
(***************************************************************************)
EXTENDS Integers, Sequences, FiniteSets, TLC

\* ------------------------------------------------------------------ bounds
\* Generations started per page load.
MaxCalls == 2
\* Largest generatedVideos list the remote job answers with.
MaxVideos == 2
\* The per-call poll counter saturates here (the loop itself is not cut).
MaxPolls == 2

\* --------------------------------------------------------------- constants
\* promptText.substring(0, 40) and promptText.length > 40
TitlePromptLen == 40

\* null and a present value of a nullable field
None == <<>>
Some(v) == <<v>>

\* The times new Date() reads.
Times == {0, 1}

\* " " is the whitespace String.trim removes.
Whitespace == {" "}

\* The texts the user types into a textarea: empty, blank, and a word padded
\* with whitespace on both sides.
Texts == {<<>>, <<" ">>, <<" ", "a", " ">>}

RECURSIVE TrimStart(_)
TrimStart(s) ==
  IF s # <<>> /\ Head(s) \in Whitespace THEN TrimStart(Tail(s)) ELSE s

RECURSIVE TrimEnd(_)
TrimEnd(s) ==
  IF s # <<>> /\ s[Len(s)] \in Whitespace THEN TrimEnd(SubSeq(s, 1, Len(s) - 1)) ELSE s

\* String.prototype.trim
Trim(s) == TrimEnd(TrimStart(s))

\* String.prototype.substring(0, n)
Substring0(s, n) == SubSeq(s, 1, IF Len(s) < n THEN Len(s) ELSE n)

\* The sample videos the gallery starts with.
MOCK_VIDEOS ==
  << [id |-> 1, title |-> <<"Sample one">>, description |-> <<"a">>,
      videoUrl |-> [scheme |-> "https", data |-> "sample-1"]] >>

\* Blobs a video download can deliver, and their base64 text.
Blobs == {"A"}
bloblToBase64(blob) == IF blob = "A" THEN "QQ==" ELSE "Qg=="

GenericError ==
  <<"Video generation failed.",
    "This may be due to an invalid API key or network issues.">>

\* ------------------------------------------------------------------- state
VARIABLES
  videos, playingVideo, editingVideo, isSaving, savingMessage,
  generationError, view, generatedVideosHistory, newVideoPrompt,
  loadingVideoId, isPlaying,
  calls,      \* every generateVideoFromText call since the page was loaded
  uuids,      \* ids handed out by crypto.randomUUID
  now         \* the time new Date() has read last

appVars ==
  <<videos, playingVideo, editingVideo, isSaving, savingMessage,
    generationError, view, generatedVideosHistory, newVideoPrompt,
    loadingVideoId, isPlaying>>
envVars == <<calls, uuids, now>>
vars == <<appVars, envVars>>

\* As useStateInit, but with a history read back from storage.
useStateInitRestoresHistory ==
  [videos |-> MOCK_VIDEOS, playingVideo |-> None, editingVideo |-> None,
   isSaving |-> FALSE, savingMessage |-> "", generationError |-> None,
   view |-> "gallery",
   generatedVideosHistory |->
     <<[id |-> 2, title |-> <<"Generated: \"", "a", "\"">>, description |-> <<"a">>,
        videoUrl |-> [scheme |-> "data:video/mp4;base64", data |-> "QQ=="],
        createdAt |-> 0]>>,
   newVideoPrompt |-> <<>>, loadingVideoId |-> None, isPlaying |-> FALSE]

\* useState initial values
useStateInit ==
  [videos |-> MOCK_VIDEOS, playingVideo |-> None, editingVideo |-> None,
   isSaving |-> FALSE, savingMessage |-> "", generationError |-> None,
   view |-> "gallery", generatedVideosHistory |-> <<>>, newVideoPrompt |-> <<>>,
   loadingVideoId |-> None, isPlaying |-> FALSE]

Init ==
  /\ videos = useStateInit.videos
  /\ playingVideo = useStateInit.playingVideo
  /\ editingVideo = useStateInit.editingVideo
  /\ isSaving = useStateInit.isSaving
  /\ savingMessage = useStateInit.savingMessage
  /\ generationError = useStateInit.generationError
  /\ view = useStateInit.view
  /\ generatedVideosHistory = useStateInit.generatedVideosHistory
  /\ newVideoPrompt = useStateInit.newVideoPrompt
  /\ loadingVideoId = useStateInit.loadingVideoId
  /\ isPlaying = useStateInit.isPlaying
  /\ calls = <<>>
  /\ uuids = 0
  /\ now = 0

\* ------------------------------------------------------- what is rendered
\* if (isSaving) return <SavingProgressPage/>: nothing else is on screen.
NoSavingScreen == FALSE
SavingScreenShown == isSaving
EditPageShown == ~SavingScreenShown /\ editingVideo # None
MainPageShown == ~SavingScreenShown /\ editingVideo = None
PlayerShown == ~SavingScreenShown /\ isPlaying /\ playingVideo # None
ErrorModalShown == ~SavingScreenShown /\ generationError # None
GenerateDisabled == Trim(newVideoPrompt) = <<>> \/ isSaving

\* ---------------------------------------------------- synchronous handlers
handlePlayVideo(video) ==
  /\ loadingVideoId' = Some(video.id)
  /\ playingVideo' = Some(video)
  /\ isPlaying' = TRUE
  /\ UNCHANGED <<videos, editingVideo, isSaving, savingMessage, generationError,
                 view, generatedVideosHistory, newVideoPrompt>>
  /\ UNCHANGED <<calls, uuids, now>>

handleClosePlayer ==
  /\ playingVideo' = None
  /\ loadingVideoId' = None
  /\ isPlaying' = FALSE
  /\ UNCHANGED <<videos, editingVideo, isSaving, savingMessage, generationError,
                 view, generatedVideosHistory, newVideoPrompt>>
  /\ UNCHANGED <<calls, uuids, now>>

handleVideoLoaded ==
  /\ loadingVideoId' = None
  /\ UNCHANGED <<videos, playingVideo, editingVideo, isSaving, savingMessage,
                 generationError, view, generatedVideosHistory, newVideoPrompt,
                 isPlaying>>
  /\ UNCHANGED <<calls, uuids, now>>

handleStartEdit(video) ==
  /\ playingVideo' = None
  /\ isPlaying' = FALSE
  /\ loadingVideoId' = None
  /\ editingVideo' = Some(video)
  /\ UNCHANGED <<videos, isSaving, savingMessage, generationError, view,
                 generatedVideosHistory, newVideoPrompt>>
  /\ UNCHANGED <<calls, uuids, now>>

handleCancelEdit ==
  /\ editingVideo' = None
  /\ UNCHANGED <<videos, playingVideo, isSaving, savingMessage, generationError,
                 view, generatedVideosHistory, newVideoPrompt, loadingVideoId,
                 isPlaying>>
  /\ UNCHANGED <<calls, uuids, now>>

setNewVideoPrompt(text) ==
  /\ newVideoPrompt' = text
  /\ UNCHANGED <<videos, playingVideo, editingVideo, isSaving, savingMessage,
                 generationError, view, generatedVideosHistory, loadingVideoId,
                 isPlaying>>
  /\ UNCHANGED <<calls, uuids, now>>

setView(v) ==
  /\ view' = v
  /\ UNCHANGED <<videos, playingVideo, editingVideo, isSaving, savingMessage,
                 generationError, generatedVideosHistory, newVideoPrompt,
                 loadingVideoId, isPlaying>>
  /\ UNCHANGED <<calls, uuids, now>>

closeErrorModal ==
  /\ generationError' = None
  /\ UNCHANGED <<videos, playingVideo, editingVideo, isSaving, savingMessage,
                 view, generatedVideosHistory, newVideoPrompt, loadingVideoId,
                 isPlaying>>
  /\ UNCHANGED <<calls, uuids, now>>

\* ------------------------------------------------- generateVideoFromText
\* What the remote answers to generateVideos / getVideosOperation: an operation
\* that is not done yet, or a done one with no response, with a response whose
\* generatedVideos is undefined (-1), or with n >= 0 generated videos.
Undefined == 0 - 1
NotDone == [done |-> FALSE, hasResponse |-> FALSE, generatedVideos |-> Undefined]
Operations ==
  {NotDone, [done |-> TRUE, hasResponse |-> FALSE, generatedVideos |-> Undefined]}
    \cup {[done |-> TRUE, hasResponse |-> TRUE, generatedVideos |-> n] :
            n \in Undefined..MaxVideos}

InFlightPcs ==
  {"awaitGenerateVideos", "awaitTimeout", "awaitGetVideosOperation", "awaitFetches"}
InFlight(g) == calls[g].pc \in InFlightPcs
Min(a, b) == IF a < b THEN a ELSE b

\* The listed state as it is when a generation starts (kept with the call).
Snapshot ==
  [videos |-> videos, generatedVideosHistory |-> generatedVideosHistory,
   view |-> view, playingVideo |-> playingVideo, isPlaying |-> isPlaying,
   loadingVideoId |-> loadingVideoId, newVideoPrompt |-> newVideoPrompt]

\* The call of generateVideoFromText up to its first await: generateVideos is
\* issued once and awaited. The frame keeps what the calling handler closes over.
generateVideoFromText(handler, originalTitle, promptText) ==
  [handler |-> handler, promptText |-> promptText, originalTitle |-> originalTitle,
   pc |-> "awaitGenerateVideos", operation |-> None, creates |-> 1, polls |-> 0,
   fetches |-> <<>>, snap |-> Some(Snapshot)]

\* The times new Date() can read after having read `last`: it reads the wall
\* clock, which the system may set back, so any time whatever was read before.
ClockReadings(last) == Times

\* A settled call keeps only how it ended: its frame is gone.
Settled(rec, outcome) ==
  [handler |-> "", promptText |-> <<>>, originalTitle |-> <<>>,
   pc |-> outcome, operation |-> None, creates |-> rec.creates, polls |-> 0,
   fetches |-> <<>>, snap |-> None]

\* const newVideo / newHistoryVideo ... setIsPlaying(true), then finally
handleSaveEditSuccess(g, rec, videoObjects) ==
  LET src == [scheme |-> "data:video/mp4;base64", data |-> videoObjects[1]]
      newVideo == [id |-> Len(MOCK_VIDEOS) + uuids + 1,
                   title |-> <<"Remix of \"">> \o rec.originalTitle \o <<"\"">>,
                   description |-> rec.promptText,
                   videoUrl |-> src]
      newHistoryVideo == [id |-> newVideo.id, title |-> newVideo.title,
                          description |-> newVideo.description,
                          videoUrl |-> newVideo.videoUrl, createdAt |-> now']
  IN /\ now' \in ClockReadings(now)
     /\ videos' = <<newVideo>> \o videos
     /\ generatedVideosHistory' = <<newHistoryVideo>> \o generatedVideosHistory
     /\ view' = "history"
     /\ playingVideo' = Some(newVideo)
     /\ isPlaying' = TRUE
     /\ isSaving' = FALSE
     /\ uuids' = uuids + 1
     /\ calls' = [calls EXCEPT ![g] = Settled(rec, "succeeded")]
     /\ UNCHANGED <<editingVideo, savingMessage, generationError, newVideoPrompt,
                    loadingVideoId>>

\* As handleSaveEditCatch, but showing the error that was caught.
handleSaveEditCatchShowsCause(g, rec, error) ==
  /\ generationError' = Some(<<error>>)
  /\ isSaving' = FALSE
  /\ calls' = [calls EXCEPT ![g] = Settled(rec, "failed")]
  /\ UNCHANGED <<videos, playingVideo, editingVideo, savingMessage, view,
                 generatedVideosHistory, newVideoPrompt, loadingVideoId, isPlaying>>
  /\ UNCHANGED <<uuids, now>>

\* catch (error) { setGenerationError([...]) } finally { setIsSaving(false) }
handleSaveEditCatch(g, rec, error) ==
  /\ generationError' = Some(GenericError)
  /\ isSaving' = FALSE
  /\ calls' = [calls EXCEPT ![g] = Settled(rec, "failed")]
  /\ UNCHANGED <<videos, playingVideo, editingVideo, savingMessage, view,
                 generatedVideosHistory, newVideoPrompt, loadingVideoId, isPlaying>>
  /\ UNCHANGED <<uuids, now>>

\* handleSaveEdit from the point where generateVideoFromText has settled
handleSaveEditResume(g, rec, thrown, videoObjects, error) ==
  IF thrown THEN handleSaveEditCatch(g, rec, error)
  ELSE IF Len(videoObjects) = 0 THEN handleSaveEditCatch(g, rec, "emptyResult")
  ELSE handleSaveEditSuccess(g, rec, videoObjects)

\* As handleGenerateNewVideoSuccess, but appending the new records.
handleGenerateNewVideoSuccessAppends(g, rec, videoObjects) ==
  LET promptText == rec.promptText
      src == [scheme |-> "data:video/mp4;base64", data |-> videoObjects[1]]
      newVideo == [id |-> Len(MOCK_VIDEOS) + uuids + 1,
                   title |-> <<"Generated: \"">>
                               \o Substring0(promptText, TitlePromptLen)
                               \o (IF Len(promptText) > TitlePromptLen
                                   THEN <<"...">> ELSE <<>>)
                               \o <<"\"">>,
                   description |-> promptText,
                   videoUrl |-> src]
      newHistoryVideo == [id |-> newVideo.id, title |-> newVideo.title,
                          description |-> newVideo.description,
                          videoUrl |-> newVideo.videoUrl, createdAt |-> now']
  IN /\ now' \in ClockReadings(now)
     /\ videos' = videos \o <<newVideo>>
     /\ generatedVideosHistory' = generatedVideosHistory \o <<newHistoryVideo>>
     /\ newVideoPrompt' = <<>>
     /\ view' = "history"
     /\ playingVideo' = Some(newVideo)
     /\ isPlaying' = TRUE
     /\ isSaving' = FALSE
     /\ uuids' = uuids + 1
     /\ calls' = [calls EXCEPT ![g] = Settled(rec, "succeeded")]
     /\ UNCHANGED <<editingVideo, savingMessage, generationError, loadingVideoId>>

\* const newVideo / newHistoryVideo ... setIsPlaying(true), then finally
handleGenerateNewVideoSuccess(g, rec, videoObjects) ==
  LET promptText == rec.promptText
      src == [scheme |-> "data:video/mp4;base64", data |-> videoObjects[1]]
      newVideo == [id |-> Len(MOCK_VIDEOS) + uuids + 1,
                   title |-> <<"Generated: \"">>
                               \o Substring0(promptText, TitlePromptLen)
                               \o (IF Len(promptText) > TitlePromptLen
                                   THEN <<"...">> ELSE <<>>)
                               \o <<"\"">>,
                   description |-> promptText,
                   videoUrl |-> src]
      newHistoryVideo == [id |-> newVideo.id, title |-> newVideo.title,
                          description |-> newVideo.description,
                          videoUrl |-> newVideo.videoUrl, createdAt |-> now']
  IN /\ now' \in ClockReadings(now)
     /\ videos' = <<newVideo>> \o videos
     /\ generatedVideosHistory' = <<newHistoryVideo>> \o generatedVideosHistory
     /\ newVideoPrompt' = <<>>
     /\ view' = "history"
     /\ playingVideo' = Some(newVideo)
     /\ isPlaying' = TRUE
     /\ isSaving' = FALSE
     /\ uuids' = uuids + 1
     /\ calls' = [calls EXCEPT ![g] = Settled(rec, "succeeded")]
     /\ UNCHANGED <<editingVideo, savingMessage, generationError, loadingVideoId>>

\* As handleGenerateNewVideoCatch, but without the finally block.
handleGenerateNewVideoCatchNoFinally(g, rec, error) ==
  /\ generationError' = Some(GenericError)
  /\ calls' = [calls EXCEPT ![g] = Settled(rec, "failed")]
  /\ UNCHANGED <<videos, playingVideo, editingVideo, isSaving, savingMessage, view,
                 generatedVideosHistory, newVideoPrompt, loadingVideoId, isPlaying>>
  /\ UNCHANGED <<uuids, now>>

\* As handleGenerateNewVideoCatch, but clearing the prompt as the success path does.
handleGenerateNewVideoCatchClearsPrompt(g, rec, error) ==
  /\ generationError' = Some(GenericError)
  /\ isSaving' = FALSE
  /\ newVideoPrompt' = <<>>
  /\ calls' = [calls EXCEPT ![g] = Settled(rec, "failed")]
  /\ UNCHANGED <<videos, playingVideo, editingVideo, savingMessage, view,
                 generatedVideosHistory, loadingVideoId, isPlaying>>
  /\ UNCHANGED <<uuids, now>>

\* As handleGenerateNewVideoCatch, but trying the generation again.
handleGenerateNewVideoCatchRetries(g, rec, error) ==
  /\ calls' = [calls EXCEPT ![g] =
                 [rec EXCEPT !.pc = "awaitGenerateVideos", !.operation = None,
                             !.creates = Min(@ + 1, MaxCalls + 1), !.polls = 0,
                             !.fetches = <<>>]]
  /\ UNCHANGED appVars
  /\ UNCHANGED <<uuids, now>>

\* catch (error) { setGenerationError([...]) } finally { setIsSaving(false) }
handleGenerateNewVideoCatch(g, rec, error) ==
  /\ generationError' = Some(GenericError)
  /\ isSaving' = FALSE
  /\ calls' = [calls EXCEPT ![g] = Settled(rec, "failed")]
  /\ UNCHANGED <<videos, playingVideo, editingVideo, savingMessage, view,
                 generatedVideosHistory, newVideoPrompt, loadingVideoId, isPlaying>>
  /\ UNCHANGED <<uuids, now>>

handleGenerateNewVideoResume(g, rec, thrown, videoObjects, error) ==
  IF thrown THEN handleGenerateNewVideoCatch(g, rec, error)
  ELSE IF Len(videoObjects) = 0 THEN handleGenerateNewVideoCatch(g, rec, "emptyResult")
  ELSE handleGenerateNewVideoSuccess(g, rec, videoObjects)

\* generateVideoFromText returns videoObjects or throws: its caller resumes.
Settle(g, rec, thrown, videoObjects, error) ==
  IF rec.handler = "handleSaveEdit"
  THEN handleSaveEditResume(g, rec, thrown, videoObjects, error)
  ELSE handleGenerateNewVideoResume(g, rec, thrown, videoObjects, error)

\* Nothing but the call's own frame changes.
Continue(g, rec) ==
  /\ calls' = [calls EXCEPT ![g] = rec]
  /\ UNCHANGED appVars
  /\ UNCHANGED <<uuids, now>>

\* ------------------------------------------------------ the async handlers
\* handleSaveEdit up to its await
handleSaveEdit(originalVideo) ==
  /\ editingVideo' = None
  /\ savingMessage' = "Creating your remix..."
  /\ isSaving' = TRUE
  /\ generationError' = None
  /\ calls' = Append(calls, generateVideoFromText("handleSaveEdit",
                              originalVideo.title, originalVideo.description))
  /\ UNCHANGED <<videos, playingVideo, view, generatedVideosHistory,
                 newVideoPrompt, loadingVideoId, isPlaying>>
  /\ UNCHANGED <<uuids, now>>

\* handleGenerateNewVideo up to its await
handleGenerateNewVideo ==
  IF Trim(newVideoPrompt) = <<>>
  THEN UNCHANGED vars
  ELSE /\ savingMessage' = "Generating your video..."
       /\ isSaving' = TRUE
       /\ generationError' = None
       /\ calls' = Append(calls, generateVideoFromText("handleGenerateNewVideo",
                                   <<>>, Trim(newVideoPrompt)))
       /\ UNCHANGED <<videos, playingVideo, editingVideo, view,
                      generatedVideosHistory, newVideoPrompt, loadingVideoId,
                      isPlaying>>
       /\ UNCHANGED <<uuids, now>>

\* ------------------------------------- generateVideoFromText, step by step
\* After the while loop: if (operation?.response) ... else throw
AfterLoop(g, rec) ==
  LET op == rec.operation[1]
  IN IF op.hasResponse
     THEN IF op.generatedVideos = Undefined \/ op.generatedVideos = 0
          THEN Settle(g, rec, TRUE, <<>>, "noVideos")
          ELSE Continue(g, [rec EXCEPT
                 !.pc = "awaitFetches",
                 !.fetches = [i \in 1..op.generatedVideos |->
                                [stage |-> "fetch", data |-> ""]]])
     ELSE Settle(g, rec, TRUE, <<>>, "noResponse")

\* while (!operation.done) { await timeout ... }
LoopTest(g, rec) ==
  IF rec.operation[1].done
  THEN AfterLoop(g, rec)
  ELSE Continue(g, [rec EXCEPT !.pc = "awaitTimeout"])

\* let operation = await ai.models.generateVideos(...) resolves
GenerateVideosResolves(g, op) ==
  /\ calls[g].pc = "awaitGenerateVideos"
  /\ LoopTest(g, [calls[g] EXCEPT !.operation = Some(op)])

GenerateVideosRejects(g) ==
  /\ calls[g].pc = "awaitGenerateVideos"
  /\ Settle(g, calls[g], TRUE, <<>>, "generateVideosRejected")

\* the 10 s timer fires and getVideosOperation is issued
TimeoutFires(g) ==
  /\ calls[g].pc = "awaitTimeout"
  /\ Continue(g, [calls[g] EXCEPT !.pc = "awaitGetVideosOperation",
                                  !.polls = Min(@ + 1, MaxPolls)])

\* operation = await ai.operations.getVideosOperation({operation}) resolves
GetVideosOperationResolves(g, op) ==
  /\ calls[g].pc = "awaitGetVideosOperation"
  /\ LoopTest(g, [calls[g] EXCEPT !.operation = Some(op)])

GetVideosOperationRejects(g) ==
  /\ calls[g].pc = "awaitGetVideosOperation"
  /\ Settle(g, calls[g], TRUE, <<>>, "getVideosOperationRejected")

\* As FetchResolves, but returning as soon as the response is in, its body unread.
FetchResolvesReturnsUnread(g, i, ok) ==
  /\ calls[g].pc = "awaitFetches"
  /\ i \in DOMAIN calls[g].fetches
  /\ calls[g].fetches[i].stage = "fetch"
  /\ IF ok
     THEN Settle(g, calls[g], FALSE, <<"">>, "")
     ELSE Settle(g, calls[g], TRUE, <<>>, "fetchNotOk")

\* const res = await fetch(...); if (!res.ok) throw
FetchResolves(g, i, ok) ==
  /\ calls[g].pc = "awaitFetches"
  /\ i \in DOMAIN calls[g].fetches
  /\ calls[g].fetches[i].stage = "fetch"
  /\ IF ok
     THEN Continue(g, [calls[g] EXCEPT !.fetches[i].stage = "blob"])
     ELSE Settle(g, calls[g], TRUE, <<>>, "fetchNotOk")

FetchRejects(g, i) ==
  /\ calls[g].pc = "awaitFetches"
  /\ i \in DOMAIN calls[g].fetches
  /\ calls[g].fetches[i].stage = "fetch"
  /\ Settle(g, calls[g], TRUE, <<>>, "fetchRejected")

\* const blob = await res.blob(); return bloblToBase64(blob); and, with the
\* last of them, Promise.all resolves and generateVideoFromText returns.
BlobEncoded(g, i, blob) ==
  /\ calls[g].pc = "awaitFetches"
  /\ i \in DOMAIN calls[g].fetches
  /\ calls[g].fetches[i].stage = "blob"
  /\ LET rec == [calls[g] EXCEPT !.fetches[i] =
                    [stage |-> "done", data |-> bloblToBase64(blob)]]
     IN IF \A j \in DOMAIN rec.fetches : rec.fetches[j].stage = "done"
        THEN Settle(g, rec, FALSE,
                    [j \in DOMAIN rec.fetches |-> rec.fetches[j].data], "")
        ELSE Continue(g, rec)

BlobRejects(g, i) ==
  /\ calls[g].pc = "awaitFetches"
  /\ i \in DOMAIN calls[g].fetches
  /\ calls[g].fetches[i].stage = "blob"
  /\ Settle(g, calls[g], TRUE, <<>>, "blobRejected")

\* ------------------------------------------------------------ HistoryPage
\* As compareNewestFirst, but with the operands the other way round.
compareOldestFirst(a, b) == a.createdAt - b.createdAt

\* (a, b) => b.createdAt.getTime() - a.createdAt.getTime()
compareNewestFirst(a, b) == b.createdAt - a.createdAt

\* x put into the sorted s behind every element that does not sort after it.
RECURSIVE InsertSorted(_, _)
InsertSorted(s, x) ==
  IF s = <<>> THEN <<x>>
  ELSE IF compareNewestFirst(Head(s), x) <= 0
       THEN <<Head(s)>> \o InsertSorted(Tail(s), x)
       ELSE <<x>> \o s

\* Array.prototype.sort with that comparator: a stable sort.
RECURSIVE SortStable(_)
SortStable(s) ==
  IF s = <<>> THEN <<>>
  ELSE InsertSorted(SortStable(SubSeq(s, 1, Len(s) - 1)), s[Len(s)])

\* What HistoryPage renders for its videos prop: the placeholder, or one card
\* per element of the sorted copy; `videos` is the prop array after the render.
HistoryPage(historyVideos) ==
  IF Len(historyVideos) = 0
  THEN [placeholder |-> TRUE, cards |-> <<>>, videos |-> historyVideos]
  ELSE [placeholder |-> FALSE, cards |-> SortStable(historyVideos),
        videos |-> historyVideos]

\* The history view is rendered.
RenderHistoryPage ==
  /\ MainPageShown /\ view # "gallery"
  /\ generatedVideosHistory' = HistoryPage(generatedVideosHistory).videos
  /\ UNCHANGED <<videos, playingVideo, editingVideo, isSaving, savingMessage,
                 generationError, view, newVideoPrompt, loadingVideoId, isPlaying>>
  /\ UNCHANGED <<calls, uuids, now>>

\* ------------------------------------------------------------ user events
PlayFromGrid ==
  /\ MainPageShown /\ view = "gallery"
  /\ \E i \in DOMAIN videos : handlePlayVideo(videos[i])

PlayFromHistory ==
  /\ MainPageShown /\ view # "gallery"
  /\ \E i \in DOMAIN generatedVideosHistory : handlePlayVideo(generatedVideosHistory[i])

ClosePlayer == PlayerShown /\ handleClosePlayer

VideoCanPlay == PlayerShown /\ handleVideoLoaded

EditFromPlayer == PlayerShown /\ handleStartEdit(playingVideo[1])

CancelEdit == EditPageShown /\ handleCancelEdit

\* EditVideoPage's Save hands back the video with the description as edited.
SaveEdit ==
  /\ EditPageShown
  /\ Len(calls) < MaxCalls
  /\ \E d \in Texts : handleSaveEdit([editingVideo[1] EXCEPT !.description = d])

TypePrompt ==
  /\ MainPageShown
  /\ \E t \in Texts : t # newVideoPrompt /\ setNewVideoPrompt(t)

ClickGenerate ==
  /\ MainPageShown
  /\ ~GenerateDisabled
  /\ Len(calls) < MaxCalls
  /\ handleGenerateNewVideo

ShowGallery == MainPageShown /\ setView("gallery")

ShowHistory == MainPageShown /\ setView("history")

CloseErrorModal == ErrorModalShown /\ closeErrorModal

\* The page is loaded again: every useState starts over, pending calls are gone.
Reload ==
  /\ videos' = useStateInit.videos
  /\ playingVideo' = useStateInit.playingVideo
  /\ editingVideo' = useStateInit.editingVideo
  /\ isSaving' = useStateInit.isSaving
  /\ savingMessage' = useStateInit.savingMessage
  /\ generationError' = useStateInit.generationError
  /\ view' = useStateInit.view
  /\ generatedVideosHistory' = useStateInit.generatedVideosHistory
  /\ newVideoPrompt' = useStateInit.newVideoPrompt
  /\ loadingVideoId' = useStateInit.loadingVideoId
  /\ isPlaying' = useStateInit.isPlaying
  /\ calls' = <<>>
  /\ uuids' = 0
  /\ UNCHANGED now

\* ------------------------------------------------------------------ system
Next ==
  \/ PlayFromGrid
  \/ PlayFromHistory
  \/ ClosePlayer
  \/ VideoCanPlay
  \/ EditFromPlayer
  \/ CancelEdit
  \/ SaveEdit
  \/ TypePrompt
  \/ ClickGenerate
  \/ ShowGallery
  \/ ShowHistory
  \/ CloseErrorModal
  \/ RenderHistoryPage
  \/ Reload
  \/ \E g \in DOMAIN calls, op \in Operations : GenerateVideosResolves(g, op)
  \/ \E g \in DOMAIN calls : GenerateVideosRejects(g)
  \/ \E g \in DOMAIN calls : TimeoutFires(g)
  \/ \E g \in DOMAIN calls, op \in Operations : GetVideosOperationResolves(g, op)
  \/ \E g \in DOMAIN calls : GetVideosOperationRejects(g)
  \/ \E g \in DOMAIN calls, i \in 1..MaxVideos, ok \in BOOLEAN : FetchResolves(g, i, ok)
  \/ \E g \in DOMAIN calls, i \in 1..MaxVideos : FetchRejects(g, i)
  \/ \E g \in DOMAIN calls, i \in 1..MaxVideos, blob \in Blobs : BlobEncoded(g, i, blob)
  \/ \E g \in DOMAIN calls, i \in 1..MaxVideos : BlobRejects(g, i)

Spec == Init /\ [][Next]_vars

\* handleGenerateNewVideo called as a function, whatever the button's disabled
\* attribute says: the handler's own guard decides.
CallGenerate ==
  /\ MainPageShown
  /\ Len(calls) < MaxCalls
  /\ handleGenerateNewVideo

SpecDirect == Init /\ [][Next \/ CallGenerate]_vars

\* The event loop runs every timer that is due and every settled promise's
\* continuation; the remote answers every request, with whatever it answers.
RemoteNext ==
  \/ \E g \in DOMAIN calls, op \in Operations : GenerateVideosResolves(g, op)
  \/ \E g \in DOMAIN calls : TimeoutFires(g)
  \/ \E g \in DOMAIN calls, op \in Operations : GetVideosOperationResolves(g, op)
  \/ \E g \in DOMAIN calls, i \in 1..MaxVideos, ok \in BOOLEAN : FetchResolves(g, i, ok)
  \/ \E g \in DOMAIN calls, i \in 1..MaxVideos, blob \in Blobs : BlobEncoded(g, i, blob)

FairSpec == Init /\ [][Next]_vars /\ WF_vars(RemoteNext)

\* ------------------------------------------------------------------ claims
InFlightCalls == {g \in DOMAIN calls : InFlight(g)}

\* Call g settles in this step: generateVideoFromText returned and the handler
\* took its success path, or it threw (or returned nothing) and the handler
\* took its catch.
Succeeds(g) ==
  /\ g \in DOMAIN calls /\ InFlight(g)
  /\ g \in DOMAIN calls' /\ calls'[g].pc = "succeeded"
Fails(g) ==
  /\ g \in DOMAIN calls /\ InFlight(g)
  /\ g \in DOMAIN calls' /\ calls'[g].pc = "failed"

\* C1: at most one generateVideoFromText call is in flight at any time; the
\* handlers never start a second one before the earlier one has settled.
C1_OneGenerationInFlight == Cardinality(InFlightCalls) <= 1

\* A second generation is in flight, started after the first one had settled.
C1_Witness ==
  /\ Len(calls) = 2
  /\ ~InFlight(1)
  /\ InFlight(2)
  /\ isSaving

\* C2: every started generation eventually settles (returns or throws), after
\* a bounded number of polls.
C2_GenerationSettles ==
  \A g \in 1..MaxCalls :
    (g \in DOMAIN calls /\ InFlight(g)) ~> (g \notin DOMAIN calls \/ ~InFlight(g))

\* The page was loaded again in this step.
Reloaded == calls # <<>> /\ calls' = <<>>

SucceededCalls == {g \in DOMAIN calls : calls[g].pc = "succeeded"}
FailedCalls == {g \in DOMAIN calls : calls[g].pc = "failed"}

\* Where call g stands agrees with what it has been answered so far.
FrameOrdered(g) ==
  LET c == calls[g]
  IN /\ c.pc = "awaitGenerateVideos" =>
          c.operation = None /\ c.polls = 0 /\ c.fetches = <<>>
     /\ c.polls > 0 => c.operation # None
     /\ c.pc \in {"awaitTimeout", "awaitGetVideosOperation"} =>
          c.operation # None /\ ~c.operation[1].done /\ c.fetches = <<>>
     /\ c.pc = "awaitFetches" =>
          /\ c.operation # None
          /\ c.operation[1].done /\ c.operation[1].hasResponse
          /\ Len(c.fetches) = c.operation[1].generatedVideos
          /\ Len(c.fetches) >= 1
     /\ c.fetches # <<>> => c.pc = "awaitFetches"

\* videos and generatedVideosHistory change only in the step in which the last
\* blob of a call has been fetched and encoded (or with a reload).
UpdateOrdered ==
  (videos' # videos \/ generatedVideosHistory' # generatedVideosHistory) =>
    \/ Reloaded
    \/ \E g \in DOMAIN calls :
         /\ Succeeds(g)
         /\ calls[g].pc = "awaitFetches"
         /\ calls[g].operation[1].done
         /\ \E i \in DOMAIN calls[g].fetches :
              /\ calls[g].fetches[i].stage = "blob"
              /\ \A j \in DOMAIN calls[g].fetches \ {i} :
                   calls[g].fetches[j].stage = "done"
         /\ Head(videos').videoUrl.data \in {bloblToBase64(b) : b \in Blobs}

\* C3: within one generation the steps come in the order job creation, polling,
\* blob retrieval, update: no poll before creation has returned, no fetch before
\* an operation reports done, no change of videos or generatedVideosHistory
\* before every blob has been fetched and encoded.
C3_WorkflowOrder ==
  /\ [](\A g \in DOMAIN calls : FrameOrdered(g))
  /\ [][UpdateOrdered]_vars

\* A second generation has polled and is fetching, one blob encoded, after the
\* first one's update.
C3_Witness ==
  /\ Len(generatedVideosHistory) = 1
  /\ \E g \in DOMAIN calls :
       /\ calls[g].pc = "awaitFetches"
       /\ calls[g].polls >= 1
       /\ \E i \in DOMAIN calls[g].fetches : calls[g].fetches[i].stage = "done"

\* C4: whatever makes a generation fail, the handler catches it and sets
\* generationError to the one fixed two-line message.
C4_SingleCatchAll ==
  [][\A g \in DOMAIN calls :
       (InFlight(g) /\ g \in DOMAIN calls'
          /\ calls'[g].pc \notin InFlightPcs \cup {"succeeded"}) =>
         /\ calls'[g].pc = "failed"
         /\ generationError' = Some(GenericError)]_vars

\* A remix has failed and the fixed message is shown.
C4_Witness ==
  /\ FailedCalls # {}
  /\ generationError = Some(GenericError)
  /\ savingMessage = "Creating your remix..."
  /\ ~isSaving

\* C5: isSaving is true exactly while a generation is in flight; when the call
\* settles the handler leaves isSaving false, with the new video playing
\* (success) or generationError set (failure).
C5_SavingScreenSwap ==
  /\ [](isSaving <=> InFlightCalls # {})
  /\ [][\A g \in DOMAIN calls :
          /\ Succeeds(g) =>
               /\ ~isSaving'
               /\ isPlaying'
               /\ playingVideo' = Some(Head(videos'))
               /\ Head(videos') \notin {videos[i] : i \in DOMAIN videos}
          /\ Fails(g) => ~isSaving' /\ generationError' # None]_vars

\* One generation has succeeded, one has failed, and the saving screen is gone.
C5_Witness ==
  /\ SucceededCalls # {}
  /\ FailedCalls # {}
  /\ InFlightCalls = {}
  /\ ~isSaving

Editing == editingVideo # None
Playing == isPlaying /\ playingVideo # None
Saving == isSaving

\* C6: at most one of editing, playing and saving holds in every reachable state.
C6_ModesExclusive ==
  /\ ~(Editing /\ Playing)
  /\ ~(Editing /\ Saving)
  /\ ~(Playing /\ Saving)

\* C7: generatedVideosHistory is empty when the page is loaded (and loaded
\* again), holds one record per generation that has succeeded since, grows by
\* exactly one record with each success and is changed by nothing else.
C7_HistoryTransient ==
  /\ [](Len(generatedVideosHistory) = Cardinality(SucceededCalls))
  /\ [][/\ Reloaded => generatedVideosHistory' = <<>>
        /\ (\E g \in DOMAIN calls : Succeeds(g)) =>
             /\ Len(generatedVideosHistory') = Len(generatedVideosHistory) + 1
             /\ Tail(generatedVideosHistory') = generatedVideosHistory
        /\ (~Reloaded /\ ~\E g \in DOMAIN calls : Succeeds(g)) =>
             generatedVideosHistory' = generatedVideosHistory]_vars

\* The page has been loaded again after a generation had succeeded.
C7_Witness ==
  /\ now > 0
  /\ calls = <<>>
  /\ generatedVideosHistory = <<>>

\* C8: after every successful generation the new record heads both videos and
\* generatedVideosHistory with the same id, the view is history, the new video
\* is playing, and handleGenerateNewVideo has cleared the prompt.
C8_SuccessEffect ==
  [][\A g \in DOMAIN calls :
       Succeeds(g) =>
         /\ videos' = <<Head(videos')>> \o videos
         /\ generatedVideosHistory' =
              <<Head(generatedVideosHistory')>> \o generatedVideosHistory
         /\ Head(videos').id = Head(generatedVideosHistory').id
         /\ view' = "history"
         /\ playingVideo' = Some(Head(videos'))
         /\ isPlaying'
         /\ (calls[g].handler = "handleGenerateNewVideo" => newVideoPrompt' = <<>>)]_vars

\* A second video, generated from a typed prompt, heads both lists and plays.
C8_Witness ==
  /\ Len(generatedVideosHistory) = 2
  /\ Head(videos).title[1] = "Generated: \""
  /\ Head(videos).id = Head(generatedVideosHistory).id
  /\ playingVideo = Some(Head(videos))
  /\ newVideoPrompt = <<>>
  /\ view = "history"

\* C9: a failed generation leaves videos, generatedVideosHistory, view,
\* playingVideo, isPlaying, loadingVideoId and newVideoPrompt as they were when
\* it was started; handleGenerateNewVideo with a blank prompt changes nothing.
C9_FailureFrame ==
  [][/\ \A g \in DOMAIN calls : Fails(g) => Some(Snapshot') = calls[g].snap
     /\ (Trim(newVideoPrompt) = <<>> /\ handleGenerateNewVideo) =>
          UNCHANGED vars]_vars

\* A generation started with a video playing and a prompt typed has failed.
C9_Witness ==
  /\ FailedCalls # {}
  /\ InFlightCalls = {}
  /\ generationError # None
  /\ newVideoPrompt # <<>>
  /\ Trim(newVideoPrompt) # <<>>
  /\ isPlaying
  /\ loadingVideoId # None

\* C10: a generation creates its remote job exactly once, and once it has failed
\* it issues no request any more: its call stays as it ended.
C10_RetryFree ==
  /\ [](\A g \in DOMAIN calls : calls[g].creates = 1)
  /\ [][\A g \in DOMAIN calls :
          calls[g].pc = "failed" => (Reloaded \/ calls'[g] = calls[g])]_vars

\* The first generation has failed; the second has created its job and polls.
C10_Witness ==
  /\ Len(calls) = 2
  /\ calls[1].pc = "failed"
  /\ calls[2].pc = "awaitGetVideosOperation"
  /\ calls[2].polls >= 1

\* What the history view shows in the current state.
Displayed == HistoryPage(generatedVideosHistory)

\* s is ordered by non-increasing createdAt.
NewestFirst(s) == \A i, j \in DOMAIN s : i < j => s[i].createdAt >= s[j].createdAt

\* c holds exactly the records of s, each once.
IsPermutation(c, s) ==
  /\ Len(c) = Len(s)
  /\ \A i \in DOMAIN s : Cardinality({k \in DOMAIN c : c[k] = s[i]})
                           = Cardinality({k \in DOMAIN s : s[k] = s[i]})

\* Where the record with this id stands in s.
IndexOf(s, id) == CHOOSE i \in DOMAIN s : s[i].id = id

\* Records with the same createdAt stand in c in the order they have in s.
TiesKeepOrder(c, s) ==
  \A i, j \in DOMAIN c :
    (i < j /\ c[i].createdAt = c[j].createdAt) =>
      IndexOf(s, c[i].id) < IndexOf(s, c[j].id)

\* The placeholder for an empty history; otherwise a permutation of the stored
\* list, newest first, the stored list itself untouched.
ShowsSortedCopy ==
  /\ Displayed.videos = generatedVideosHistory
  /\ generatedVideosHistory = <<>> => Displayed.placeholder /\ Displayed.cards = <<>>
  /\ generatedVideosHistory # <<>> =>
       /\ ~Displayed.placeholder
       /\ IsPermutation(Displayed.cards, generatedVideosHistory)
       /\ NewestFirst(Displayed.cards)

\* C11 as stated: HistoryPage shows a permutation of the stored list ordered by
\* non-increasing createdAt (the placeholder when it is empty), leaves the
\* stored list unmodified, and the displayed order always equals the stored
\* order of generatedVideosHistory.
C11_DisplayedIsStored ==
  /\ ShowsSortedCopy
  /\ Displayed.cards = generatedVideosHistory

\* C11, amended: HistoryPage shows a permutation of the stored list ordered by
\* non-increasing createdAt (the placeholder when it is empty), leaves the
\* stored list unmodified and keeps ties in their stored order; the displayed
\* order equals the stored order exactly when the stored createdAt values do
\* not increase from the head, that is, when new Date() was not set back
\* between the generations.
C11_NewestFirst ==
  /\ ShowsSortedCopy
  /\ TiesKeepOrder(Displayed.cards, generatedVideosHistory)
  /\ (Displayed.cards = generatedVideosHistory) <=> NewestFirst(generatedVideosHistory)

\* The history view is up with two records, the later generation carrying the
\* earlier createdAt: it is shown below the older one.
C11_Witness ==
  /\ MainPageShown /\ view = "history"
  /\ Len(generatedVideosHistory) = 2
  /\ generatedVideosHistory[1].createdAt < generatedVideosHistory[2].createdAt
  /\ Displayed.cards[1] = generatedVideosHistory[2]
  /\ Displayed.cards[2] = generatedVideosHistory[1]

====
